---- MODULE Spec2Model ----
(***************************************************************************)
(* The AI streaming relay of TskFok/finance: api/ai_chat.go (ChatStream,   *)
(* chatStreamScoped) and api/ai_analysis.go (AnalyzeExpenses,              *)
(* analyzeExpensesScoped, callAIModelStreamAndStore,                       *)
(* processAnalysisLineToJSON).                                             *)
(*                                                                         *)
(* One request is followed from the handler's entry to its return.  The    *)
(* upstream body is a sequence of raw lines, each a sequence of tokens, so *)
(* that bytes.TrimSpace, bytes.HasPrefix, bytes.TrimPrefix, json.Unmarshal *)
(* and the choices[0].delta.content walk are computed as the code computes *)
(* them.  Everything the handler does to the outside (frames and bodies    *)
(* written to the response, rows handed to database.DB.Create) is appended *)
(* to the sequence effects, in program order.                              *)
(***************************************************************************)
EXTENDS Integers, Sequences, FiniteSets, TLC

\* The number of newline-terminated lines the upstream may deliver in a run.
MaxLines == 3

(***************************************************************************)
(* JSON values, as encoding/json decodes them into interface{}.            *)
(***************************************************************************)
JNull == [t |-> "null"]
JStr(chars) == [t |-> "string", v |-> chars]
JNum(n) == [t |-> "number", v |-> n]
JArr(elems) == [t |-> "array", v |-> elems]
JObj(fields) == [t |-> "object", v |-> fields]

(***************************************************************************)
(* Tokens of a raw line.  A white-space token is one byte that             *)
(* bytes.TrimSpace removes; a text token is a run of other bytes; a json   *)
(* token is the text of one well-formed JSON value.                        *)
(***************************************************************************)
Ws(s) == [k |-> "ws", s |-> s, v |-> JNull]
Txt(s) == [k |-> "txt", s |-> s, v |-> JNull]
Json(val) == [k |-> "json", s |-> "", v |-> val]
Sp == Ws(" ")
CR == Ws("CR")
LF == Ws("LF")

\* The text contents the provider's envelopes carry, as sequences of characters.
Hi == <<"H", "i">>
There == <<" ", "t", "h">>

\* {"choices":[{"delta":{"content":c}}]}
Envelope(c) == JObj([choices |-> JArr(<<JObj([delta |-> JObj([content |-> c])])>>)])

(***************************************************************************)
(* The raw lines the provider may send, each ending with its newline.      *)
(***************************************************************************)
LBlank == <<LF>>
LKeepAlive == <<Txt(": keepalive"), LF>>
LDone == <<Txt("data:"), Sp, Txt("[DONE]"), LF>>
LDelta1 == <<Txt("data:"), Sp, Json(Envelope(JStr(Hi))), LF>>
LDelta2 == <<Sp, Txt("data:"), Sp, Json(Envelope(JStr(There))), CR, LF>>
LBadJSON == <<Txt("data:"), Sp, Txt("{bad"), LF>>
LEmptyContent == <<Txt("data:"), Sp, Json(Envelope(JStr(<<>>))), LF>>
LNumContent == <<Txt("data:"), Sp, Json(Envelope(JNum(7))), LF>>
LNoChoices == <<Txt("data:"), Sp, Json(JObj([choices |-> JArr(<<>>)])), LF>>
LNullPayload == <<Txt("data:"), Sp, Json(JNull), LF>>
LNoSpace == <<Txt("data:"), Json(Envelope(JStr(Hi))), LF>>

\* Every line with what it is in the provider's protocol: "blank", "unprefixed"
\* (a comment or keep-alive), "terminal" (the sentinel), "delta" with the text it
\* carries, or "malformed" (a data line that is no delta envelope with text).
UpstreamLines ==
    << [raw |-> LBlank, is |-> "blank", text |-> <<>>],
       [raw |-> LKeepAlive, is |-> "unprefixed", text |-> <<>>],
       [raw |-> LDone, is |-> "terminal", text |-> <<>>],
       [raw |-> LDelta1, is |-> "delta", text |-> Hi],
       [raw |-> LDelta2, is |-> "delta", text |-> There],
       [raw |-> LBadJSON, is |-> "malformed", text |-> <<>>],
       [raw |-> LEmptyContent, is |-> "malformed", text |-> <<>>],
       [raw |-> LNumContent, is |-> "malformed", text |-> <<>>],
       [raw |-> LNoChoices, is |-> "malformed", text |-> <<>>],
       [raw |-> LNullPayload, is |-> "malformed", text |-> <<>>],
       [raw |-> LNoSpace, is |-> "unprefixed", text |-> <<>>] >>

LineIds == 1..Len(UpstreamLines)
Line(i) == UpstreamLines[i].raw

\* The bytes the body may end with after its last newline: a line of the
\* provider's that lacks its newline.
TailUniverse ==
    << SubSeq(LDelta1, 1, Len(LDelta1) - 1), SubSeq(LDone, 1, Len(LDone) - 1) >>

TailIds == 1..Len(TailUniverse)

(***************************************************************************)
(* The standard-library calls of the read loop.                            *)
(***************************************************************************)
RECURSIVE TrimLeft(_)
TrimLeft(line) ==
    IF line # <<>> /\ Head(line).k = "ws" THEN TrimLeft(Tail(line)) ELSE line

RECURSIVE TrimRight(_)
TrimRight(line) ==
    IF line # <<>> /\ line[Len(line)].k = "ws"
    THEN TrimRight(SubSeq(line, 1, Len(line) - 1))
    ELSE line

\* bytes.TrimSpace(line)
TrimSpace(line) == TrimRight(TrimLeft(line))

\* bytes.HasPrefix(line, []byte("data: "))
HasPrefix(line) ==
    /\ Len(line) >= 2
    /\ line[1].k = "txt" /\ line[1].s = "data:"
    /\ line[2].k = "ws" /\ line[2].s = " "

\* bytes.TrimPrefix(line, []byte("data: "))
TrimPrefix(line) == IF HasPrefix(line) THEN SubSeq(line, 3, Len(line)) ELSE line

\* string(data) == "[DONE]"
\* A relay that does not know the sentinel.
IsDone_Never(data) == FALSE

\* string(data) == "[DONE]"
IsDone(data) == Len(data) = 1 /\ data[1].k = "txt" /\ data[1].s = "[DONE]"

\* json.Unmarshal(data, &streamData) with streamData a map[string]interface{}:
\* white space around the value is skipped, the value must be one JSON value,
\* and it must be an object or null (null leaves the map nil, with no error).
Unmarshal(data) ==
    LET body == TrimSpace(data) IN
    IF Len(body) = 1 /\ body[1].k = "json" /\ body[1].v.t = "object"
    THEN [err |-> FALSE, m |-> body[1].v.v]
    ELSE IF Len(body) = 1 /\ body[1].k = "json" /\ body[1].v.t = "null"
    THEN [err |-> FALSE, m |-> <<>>]
    ELSE [err |-> TRUE, m |-> <<>>]

\* The walk to choices[0].delta.content, every step a checked type assertion;
\* content stays "" when any of them fails.
ContentOf(streamData) ==
    IF "choices" \in DOMAIN streamData
       /\ streamData["choices"].t = "array"
       /\ Len(streamData["choices"].v) > 0
    THEN LET choice == streamData["choices"].v[1] IN
         IF choice.t = "object" /\ "delta" \in DOMAIN choice.v
            /\ choice.v["delta"].t = "object"
         THEN LET delta == choice.v["delta"].v IN
              IF "content" \in DOMAIN delta /\ delta["content"].t = "string"
              THEN delta["content"].v
              ELSE <<>>
         ELSE <<>>
    ELSE <<>>

\* A loop that leaves on a payload that does not parse.
ChatLine_StopOnBadJSON(raw) ==
    LET line == TrimSpace(raw) IN
    IF Len(line) = 0 THEN [class |-> "skip", content |-> <<>>]
    ELSE IF ~HasPrefix(line) THEN [class |-> "skip", content |-> <<>>]
    ELSE LET data == TrimPrefix(line) IN
         IF IsDone(data) THEN [class |-> "done", content |-> <<>>]
         ELSE LET u == Unmarshal(data) IN
              IF u.err THEN [class |-> "done", content |-> <<>>]
              ELSE IF ContentOf(u.m) = <<>> THEN [class |-> "skip", content |-> <<>>]
              ELSE [class |-> "delta", content |-> ContentOf(u.m)]

\* The loop body of ChatStream / chatStreamScoped from the trim to the
\* classification: what the line is and the content it carries.
ChatLine(raw) ==
    LET line == TrimSpace(raw) IN
    IF Len(line) = 0 THEN [class |-> "skip", content |-> <<>>]
    ELSE IF ~HasPrefix(line) THEN [class |-> "skip", content |-> <<>>]
    ELSE LET data == TrimPrefix(line) IN
         IF IsDone(data) THEN [class |-> "done", content |-> <<>>]
         ELSE LET u == Unmarshal(data) IN
              IF u.err THEN [class |-> "skip", content |-> <<>>]
              ELSE IF ContentOf(u.m) = <<>> THEN [class |-> "skip", content |-> <<>>]
              ELSE [class |-> "delta", content |-> ContentOf(u.m)]

\* processAnalysisLineToJSON(c, line): the delta text, whether the stream is
\* finished, and the frames it writes to the response itself.
processAnalysisLineToJSON(raw) ==
    LET line == TrimSpace(raw) IN
    IF Len(line) = 0 THEN [delta |-> <<>>, done |-> FALSE, written |-> <<>>]
    ELSE IF ~HasPrefix(line) THEN [delta |-> <<>>, done |-> FALSE, written |-> <<>>]
    ELSE LET data == TrimPrefix(line) IN
         IF IsDone(data)
         THEN [delta |-> <<>>, done |-> TRUE, written |-> <<"done">>]
         ELSE LET u == Unmarshal(data) IN
              IF u.err THEN [delta |-> <<>>, done |-> FALSE, written |-> <<>>]
              ELSE IF ContentOf(u.m) = <<>>
              THEN [delta |-> <<>>, done |-> FALSE, written |-> <<>>]
              ELSE [delta |-> ContentOf(u.m), done |-> FALSE, written |-> <<"delta">>]


(***************************************************************************)
(* The handler's effects on the outside, in program order.                 *)
(***************************************************************************)
\* writeSSEJSON / writeAnalysisSSE: one "data: {json}\n\n" event on the response.
Sse(type, content) ==
    [kind |-> "sse", type |-> type, content |-> content, status |-> 0, ok |-> TRUE]

\* c.JSON(status, ...) and the Response helpers: one JSON body on the response.
JsonBody(status, message) ==
    [kind |-> "json", type |-> "", content |-> message, status |-> status, ok |-> TRUE]

\* database.DB.Create(&row): one insert handed to the store, which it accepts or not.
Store(table, text, ok) ==
    [kind |-> "store", type |-> table, content |-> text, status |-> 0, ok |-> ok]

\* A builder that takes each text twice.
WriteString_Twice(builder, content) == builder \o content \o content

\* A builder that puts the new text in front.
WriteString_Prepend(builder, content) == content \o builder

\* aiText.WriteString(content) / out.WriteString(delta)
WriteString(builder, content) == builder \o content

ChatHandlers == {"ChatStream", "chatStreamScoped"}
AnalysisHandlers == {"AnalyzeExpenses", "analyzeExpensesScoped"}
Handlers == ChatHandlers \cup AnalysisHandlers

\* The status codes the provider answers with in the model.
Statuses == {200, 204, 401, 500}
StatusOK == 200

\* aiModel.APIKey, sent to the provider as "Authorization: Bearer <key>".
APIKey == "sk-secret"

\* The bodies the provider sends with a status that is not 200: a fixed text, or
\* a text that quotes the credential of the request it refuses.
ErrorBodies == { <<"bad request">>, <<"incorrect api key: ", APIKey>> }

VARIABLES
    handler,            \* which entry point serves the request
    pc,                 \* "start", "select" (the ctx.Done check), "read" (in ReadBytes), "return"
    ret,                \* the return statement taken: "" while running
    ctxDone,            \* c.Request.Context() is done: the client has gone
    disc,               \* where the handler was when the client went
    sseHeader,          \* Content-Type: text/event-stream has been set
    httpCalls,          \* client.Do calls made
    status,             \* resp.StatusCode, 0 before a response
    lines,              \* the newline-terminated lines ReadBytes has returned (ids)
    tail,               \* the unterminated line ReadBytes returned with io.EOF (id, 0: none)
    aiText,             \* the strings.Builder accumulating the output
    finishedNormally,   \* finishedNormally / finished
    effects,            \* frames, bodies and inserts, in program order
    rows,               \* the transcript tables: every row ever created, by primary key
    reply,              \* the answer of the last history request
    active,             \* of two concurrent requests, the one that is running
    peer,               \* the locals of the request that is not running
    clock,              \* time.Now(), in ticks
    store,              \* LoginRateLimit: per IP, the timestamps of the requests let through
    waiting,            \* LoginRateLimit: requests that have read the time and wait for mu
    answers,            \* LoginRateLimit: the requests answered, in the order they held mu
    actual,             \* matchPath: the request path
    pattern,            \* matchPath: the permission's path pattern
    matched,            \* matchPath: its result, "unset" before the call
    secret,             \* cookie: cfg.JWT.Secret
    value,              \* cookie: the value the server signs
    signed,             \* cookie: the cookie the browser sends back
    verified,           \* cookie: what verifyCookieValue returned, and the stage of the run
    resetCalls,         \* password reset: each call's position, request and response
    passwordReset,      \* password reset: the row of password_resets that holds the code
    password,           \* password reset: the user's password (0: the old one)
    feishuBindTokens,   \* Feishu bind: the token store
    callbacks,          \* Feishu bind: each callback's position, state parameter and user
    issued,             \* Feishu bind: what GetFeishuBindToken has handed out
    now                 \* Feishu bind: time.Now()

\* The locals of one invocation of a handler.
relayVars == <<handler, pc, ret, ctxDone, disc, sseHeader, httpCalls, status, lines, tail,
               aiText, finishedNormally, effects>>

\* database.DB, and the answer a history handler gave.
storeVars == <<rows, reply>>

\* The other request in flight.
pairVars == <<active, peer>>

\* The login rate limiter (middleware/ratelimit.go).
rateVars == <<clock, store, waiting, answers>>

\* The parts of the server outside the AI handlers.
\* One call of matchPath (middleware/admin_permission.go).
pathVars == <<actual, pattern, matched>>

\* One cookie signed or forged, then verified (api/cookie.go).
cookieVars == <<secret, value, signed, verified>>

\* Calls of ResetPassword and AppResetPassword that present one code.
resetVars == <<resetCalls, passwordReset, password>>

\* GetFeishuBindToken and the bind branch of FeishuCallback.
bindVars == <<feishuBindTokens, callbacks, issued, now>>

auxVars == <<rateVars, pathVars, cookieVars, resetVars, bindVars>>

vars == <<relayVars, storeVars, pairVars, auxVars>>

\* The client addresses of the model.
IPs == {"10.0.0.1", "10.0.0.2"}

\* Nothing has reached the login rate limiter.
RateQuiet ==
    /\ clock = 0
    /\ store = [ip \in IPs |-> <<>>]
    /\ waiting = {}
    /\ answers = <<>>

\* No path is being matched.
PathQuiet ==
    /\ actual = <<>>
    /\ pattern = <<>>
    /\ matched = "unset"

\* No cookie has been set.
CookieQuiet ==
    /\ secret = ""
    /\ value = <<>>
    /\ signed = <<>>
    /\ verified = [stage |-> "new", value |-> <<>>, err |-> ""]

\* The calls that present the code, and the new password each one asks for.
MaxCalls == 2
Calls == 1..MaxCalls

\* A call that has not been made.
NoCall == [pc |-> "idle", handler |-> "", code |-> "", late |-> FALSE, reply |-> ""]

\* A code has been sent and nobody has presented it.
ResetQuiet ==
    /\ resetCalls = [c \in Calls |-> NoCall]
    /\ passwordReset = [Used |-> FALSE, expired |-> FALSE]
    /\ password = 0

\* The callbacks that come back from Feishu.
MaxCallbacks == 2
Callbacks == 1..MaxCallbacks

\* A callback that has not arrived.
NoCallback == [pc |-> "idle", token |-> 0, ok |-> FALSE, UserID |-> 0, ExpiresAt |-> 0,
               currentUser |-> 0, by |-> "", at |-> 0]

\* No bind token has been asked for.
BindQuiet ==
    /\ feishuBindTokens = <<>>
    /\ callbacks = [k \in Callbacks |-> NoCallback]
    /\ issued = <<>>
    /\ now = 0

\* The rest of the server is idle.
Quiet == RateQuiet /\ PathQuiet /\ CookieQuiet /\ ResetQuiet /\ BindQuiet

\* The two transcript tables (TableName of AIChatMessage, of AIAnalysisHistory).
Tables == {"ai_chat_messages", "ai_analysis_histories"}

\* No history request has been answered.
NoReply == [op |-> "", status |-> 0, id |-> 0, caller |-> 0, model |-> 0,
            total |-> 0, list |-> <<>>]

\* One request alone: nothing stored yet, no other request in flight.
Alone ==
    /\ rows = [t \in Tables |-> <<>>]
    /\ reply = NoReply
    /\ active = 1
    /\ peer = <<>>

\* No request is being served by an AI handler.
Idle ==
    /\ handler = "ChatStream" /\ pc = "start" /\ ret = "" /\ ctxDone = FALSE
    /\ disc = [at |-> -1, pc |-> "", read |-> 0] /\ sseHeader = FALSE /\ httpCalls = 0
    /\ status = 0 /\ lines = <<>> /\ tail = 0 /\ aiText = <<>>
    /\ finishedNormally = FALSE /\ effects = <<>>

Init ==
    /\ Alone
    /\ Quiet
    /\ handler \in Handlers
    /\ pc = "start"
    /\ ret = ""
    /\ ctxDone = FALSE
    /\ disc = [at |-> -1, pc |-> "", read |-> 0]
    /\ sseHeader = FALSE
    /\ httpCalls = 0
    /\ status = 0
    /\ lines = <<>>
    /\ tail = 0
    /\ aiText = <<>>
    /\ finishedNormally = FALSE
    /\ effects = <<>>

\* The client closes its connection while the handler runs.
Disconnect ==
    /\ pc # "return"
    /\ ~ctxDone
    /\ ctxDone' = TRUE
    /\ disc' = [at |-> Len(effects), pc |-> pc, read |-> Len(lines)]
    /\ UNCHANGED <<handler, pc, ret, sseHeader, httpCalls, status, lines, tail, aiText,
                   finishedNormally, effects>>

\* A handler that starts over after a failure instead of returning.
Return_Retry(r, written) ==
    /\ pc' = IF r \in {"prestream", "fault"} THEN "start" ELSE "return"
    /\ ret' = IF r \in {"prestream", "fault"} THEN "" ELSE r
    /\ effects' = effects \o written

Return(r, written) ==
    /\ pc' = "return"
    /\ ret' = r
    /\ effects' = effects \o written

\* Answering an unknown model in the stream, as the later failures are.
ModelNotFound_Sse == <<Sse("error", <<"no such model">>), Sse("done", <<>>)>>

\* database.DB.First(&aiModel, req.ModelID) fails: a 404 body.
ModelNotFound == <<JsonBody(404, <<"no such model">>)>>

\* A loop that never looks at the request context.
Cancelled_Never == FALSE

\* A check of ctx.Done that is made only every other line.
Cancelled_Late == ctxDone /\ Len(lines) > disc.read + 1

\* case <-ctx.Done():
Cancelled == ctxDone

(***************************************************************************)
(* ChatStream and chatStreamScoped (the same text but for the user id).    *)
(***************************************************************************)
\* An error frame with no done frame after it.
ChatPreStreamError_NoDone(message) == <<Sse("error", message)>>

\* The failure paths after the SSE headers: an error frame, then done.
ChatPreStreamError(message) == <<Sse("error", message), Sse("done", <<>>)>>

\* A relay that classifies the bytes ReadBytes returned together with io.EOF.
AtEOF_ProcessTail(text, t) ==
    IF t # 0 /\ ChatLine(TailUniverse[t]).class = "delta"
    THEN text \o ChatLine(TailUniverse[t]).content
    ELSE text

\* if err == io.EOF { break }: the bytes returned with the error are not looked at.
AtEOF(text, t) == text

\* ChatStream / chatStreamScoped from entry to the first loop iteration.
ChatStart ==
    /\ pc = "start"
    /\ handler \in ChatHandlers
    /\ \/ \* c.ShouldBindJSON fails
          /\ Return("bind", <<JsonBody(400, <<"bad request">>)>>)
          /\ UNCHANGED <<sseHeader, httpCalls, status>>
       \/ \* database.DB.First finds no model
          /\ Return("nomodel", ModelNotFound)
          /\ UNCHANGED <<sseHeader, httpCalls, status>>
       \/ \* http.NewRequest fails (a base URL that does not parse)
          /\ sseHeader' = TRUE
          /\ Return("prestream", ChatPreStreamError(<<"new request failed">>))
          /\ UNCHANGED <<httpCalls, status>>
       \/ \* client.Do fails
          /\ sseHeader' = TRUE
          /\ httpCalls' = httpCalls + 1
          /\ Return("prestream", ChatPreStreamError(<<"request failed">>))
          /\ UNCHANGED status
       \/ \* the provider answers
          /\ sseHeader' = TRUE
          /\ httpCalls' = httpCalls + 1
          /\ \E code \in Statuses :
                /\ status' = code
                /\ IF code # StatusOK
                   THEN \E body \in ErrorBodies :
                           Return("prestream",
                                  ChatPreStreamError(<<"upstream error", ToString(code)>>
                                                     \o body))
                   ELSE pc' = "select" /\ UNCHANGED <<ret, effects>>
    /\ UNCHANGED <<handler, ctxDone, disc, lines, tail, aiText, finishedNormally>>

\* The block after the loop: if finishedNormally { Create; done }
ChatAfterLoop(finished, text, ok) ==
    IF finished THEN <<Store("chat", text, ok), Sse("done", <<>>)>> ELSE <<>>

\* Leaving the loop on cancellation as if the stream had ended.
ChatOnCancel_Persist == ChatAfterLoop(TRUE, aiText, TRUE)

\* What the handler does on seeing the client gone: return.
ChatOnCancel == <<>>

\* select { case <-ctx.Done(): return; default: }
ChatSelect ==
    /\ pc = "select"
    /\ handler \in ChatHandlers
    /\ IF Cancelled
       THEN Return("cancel", ChatOnCancel)
       ELSE pc' = "read" /\ UNCHANGED <<ret, effects>>
    /\ UNCHANGED <<handler, ctxDone, disc, sseHeader, httpCalls, status, lines, tail,
                   aiText, finishedNormally>>

\* Treating every read error as the end of the stream.
ChatOnFault_AsEOF == ChatAfterLoop(TRUE, aiText, TRUE)

\* What the handler does on a read error that is not io.EOF: return.
ChatOnFault == <<>>

\* The [DONE] branch inside the loop: Create, done, break.
ChatOnSentinel(text, ok) == <<Store("chat", text, ok), Sse("done", <<>>)>>

\* reader.ReadBytes('\n') returns and the rest of the iteration runs; when the
\* loop is left, so does the block after it.
ChatRead ==
    /\ pc = "read"
    /\ handler \in ChatHandlers
    /\ \/ \* io.EOF, with or without unterminated bytes before it: break
          /\ \E t \in {0} \cup TailIds :
                /\ tail' = t
                /\ finishedNormally' = TRUE
                /\ \E ok \in BOOLEAN :
                      Return("end", ChatAfterLoop(finishedNormally', AtEOF(aiText, t), ok))
          /\ UNCHANGED <<lines, aiText>>
       \/ \* any other read error
          /\ Return("fault", ChatOnFault)
          /\ UNCHANGED <<lines, tail, aiText, finishedNormally>>
       \/ \* a line
          /\ Len(lines) < MaxLines
          /\ \E i \in LineIds :
                LET l == ChatLine(Line(i)) IN
                /\ lines' = Append(lines, i)
                /\ CASE l.class = "skip" ->
                          /\ pc' = "select"
                          /\ UNCHANGED <<ret, aiText, finishedNormally, effects>>
                     [] l.class = "delta" ->
                          /\ aiText' = WriteString(aiText, l.content)
                          /\ effects' = Append(effects, Sse("delta", l.content))
                          /\ pc' = "select"
                          /\ UNCHANGED <<ret, finishedNormally>>
                     [] l.class = "done" ->
                          /\ finishedNormally' = TRUE
                          /\ \E ok1, ok2 \in BOOLEAN :
                                Return("end",
                                       ChatOnSentinel(aiText, ok1)
                                       \o ChatAfterLoop(finishedNormally', aiText, ok2))
                          /\ UNCHANGED aiText
          /\ UNCHANGED tail
    /\ UNCHANGED <<handler, ctxDone, disc, sseHeader, httpCalls, status>>

(***************************************************************************)
(* AnalyzeExpenses and analyzeExpensesScoped, with                         *)
(* callAIModelStreamAndStore, which both call.                             *)
(***************************************************************************)
\* Reporting the relay's error the way the chat handlers do.
AnalysisFailed_Sse(message) == <<Sse("error", message), Sse("done", <<>>)>>

\* The caller of callAIModelStreamAndStore, given the error it returned:
\* c.JSON(500, ...) in AnalyzeExpenses, InternalError(c, ...) in analyzeExpensesScoped.
AnalysisFailed(message) == <<JsonBody(500, <<"analysis failed">> \o message)>>

\* AnalyzeExpenses / analyzeExpensesScoped from entry, through
\* callAIModelStreamAndStore, to the first loop iteration.
AnalysisStart ==
    /\ pc = "start"
    /\ handler \in AnalysisHandlers
    /\ \/ \* c.ShouldBindJSON fails
          /\ Return("bind", <<JsonBody(400, <<"bad request">>)>>)
          /\ UNCHANGED <<sseHeader, httpCalls, status>>
       \/ \* database.DB.First finds no model
          /\ Return("nomodel", ModelNotFound)
          /\ UNCHANGED <<sseHeader, httpCalls, status>>
       \/ \* parseDateRange fails, or the range holds no expense
          /\ Return("norecords", <<JsonBody(400, <<"bad range">>)>>)
          /\ UNCHANGED <<sseHeader, httpCalls, status>>
       \/ \* the expense query fails
          /\ Return("norecords", <<JsonBody(500, <<"query failed">>)>>)
          /\ UNCHANGED <<sseHeader, httpCalls, status>>
       \/ \* http.NewRequest fails
          /\ sseHeader' = TRUE
          /\ Return("prestream", AnalysisFailed(<<"new request failed">>))
          /\ UNCHANGED <<httpCalls, status>>
       \/ \* client.Do fails
          /\ sseHeader' = TRUE
          /\ httpCalls' = httpCalls + 1
          /\ Return("prestream", AnalysisFailed(<<"request failed">>))
          /\ UNCHANGED status
       \/ \* the provider answers
          /\ sseHeader' = TRUE
          /\ httpCalls' = httpCalls + 1
          /\ \E code \in Statuses :
                /\ status' = code
                /\ IF code # StatusOK
                   THEN \E body \in ErrorBodies :
                           Return("prestream",
                                  AnalysisFailed(<<"upstream error", ToString(code)>>
                                                 \o body))
                   ELSE pc' = "select" /\ UNCHANGED <<ret, effects>>
    /\ UNCHANGED <<handler, ctxDone, disc, lines, tail, aiText, finishedNormally>>

\* select { case <-ctx.Done(): return fmt.Errorf(...); default: }
AnalysisSelect ==
    /\ pc = "select"
    /\ handler \in AnalysisHandlers
    /\ IF Cancelled
       THEN Return("cancel", AnalysisFailed(<<"client disconnected">>))
       ELSE pc' = "read" /\ UNCHANGED <<ret, effects>>
    /\ UNCHANGED <<handler, ctxDone, disc, sseHeader, httpCalls, status, lines, tail,
                   aiText, finishedNormally>>

\* The block after the loop: if finished { Create; done }
AnalysisAfterLoop(finished, text, ok) ==
    IF finished THEN <<Store("analysis", text, ok), Sse("done", <<>>)>> ELSE <<>>

\* The frames processAnalysisLineToJSON writes for a line.
AnalysisWritten(p) ==
    [n \in 1..Len(p.written) |-> Sse(p.written[n], p.delta)]

\* reader.ReadBytes('\n') returns and the rest of the iteration runs; when the
\* loop is left, so does the block after it.  (A line returned without error
\* ends with its newline, so the len(line) == 0 test never holds.)
AnalysisRead ==
    /\ pc = "read"
    /\ handler \in AnalysisHandlers
    /\ \/ \* io.EOF, with or without unterminated bytes before it: break
          /\ \E t \in {0} \cup TailIds :
                /\ tail' = t
                /\ finishedNormally' = TRUE
                /\ \E ok \in BOOLEAN :
                      Return("end", AnalysisAfterLoop(finishedNormally', AtEOF(aiText, t), ok))
          /\ UNCHANGED <<lines, aiText>>
       \/ \* any other read error
          /\ Return("fault", AnalysisFailed(<<"read failed">>))
          /\ UNCHANGED <<lines, tail, aiText, finishedNormally>>
       \/ \* a line
          /\ Len(lines) < MaxLines
          /\ \E i \in LineIds :
                LET p == processAnalysisLineToJSON(Line(i)) IN
                /\ lines' = Append(lines, i)
                /\ aiText' = IF p.delta # <<>> THEN WriteString(aiText, p.delta) ELSE aiText
                /\ IF p.done
                   THEN /\ finishedNormally' = TRUE
                        /\ \E ok \in BOOLEAN :
                              Return("end", AnalysisWritten(p)
                                            \o AnalysisAfterLoop(finishedNormally', aiText', ok))
                   ELSE /\ effects' = effects \o AnalysisWritten(p)
                        /\ pc' = "select"
                        /\ UNCHANGED <<ret, finishedNormally>>
          /\ UNCHANGED tail
    /\ UNCHANGED <<handler, ctxDone, disc, sseHeader, httpCalls, status>>

Next ==
    \/ Disconnect /\ UNCHANGED <<storeVars, pairVars, auxVars>>
    \/ ChatStart /\ UNCHANGED <<storeVars, pairVars, auxVars>>
    \/ ChatSelect /\ UNCHANGED <<storeVars, pairVars, auxVars>>
    \/ ChatRead /\ UNCHANGED <<storeVars, pairVars, auxVars>>
    \/ AnalysisStart /\ UNCHANGED <<storeVars, pairVars, auxVars>>
    \/ AnalysisSelect /\ UNCHANGED <<storeVars, pairVars, auxVars>>
    \/ AnalysisRead /\ UNCHANGED <<storeVars, pairVars, auxVars>>

Spec == Init /\ [][Next]_vars

(***************************************************************************)
(* The transcript store and the history handlers.                          *)
(***************************************************************************)

\* Rows created in a run of the history specification, over both tables.
MaxRows == 2

ModelIds == {1, 2}
\* user_id of a row: 0 when the request that stored it had no resolved user.
UserIds == {0, 1, 2}
\* middleware.GetCurrentUserID of an authenticated App request.
AppUsers == {1, 2}
Pages == {1, 2}
PageSizes == {1, 2}

ListOps == {"ChatHistory", "ChatHistoryApp", "ListAnalysisHistory", "ListAnalysisHistoryApp"}
AdminDeleteOps == {"DeleteChatHistory", "DeleteAnalysisHistory"}
AppDeleteOps == {"DeleteChatHistoryApp", "DeleteAnalysisHistoryApp"}
AppOps == {"ChatHistoryApp", "ListAnalysisHistoryApp"} \cup AppDeleteOps

\* The table a handler works on.
TableOf(op) ==
    IF op \in {"ChatHistory", "ChatHistoryApp", "DeleteChatHistory", "DeleteChatHistoryApp"}
    THEN "ai_chat_messages" ELSE "ai_analysis_histories"

\* The text a relay of each kind stores.
TextOf(table) == IF table = "ai_chat_messages" THEN Hi ELSE There

\* models.AIChatMessage{...} / models.AIAnalysisHistory{...}: DeletedAt is unset.
Row(model, user, text) == [model |-> model, user |-> user, text |-> text, deleted |-> FALSE]

\* A store that also reads the rows whose DeletedAt is set.
NotDeleted_Unscoped(row) == TRUE

\* A model with a gorm.DeletedAt field is read with "deleted_at IS NULL".
NotDeleted(row) == ~row.deleted

\* database.DB.Delete of a model with a gorm.DeletedAt field sets the field.
SoftDelete(table, id) == [rows EXCEPT ![table][id].deleted = TRUE]

\* database.DB.First(&msg, id): the row of that primary key, if it is there.
First(table, id) == id \in 1..Len(rows[table]) /\ NotDeleted(rows[table][id])

\* The ids that query.Where("ai_model_id = ?")[.Where("user_id = ?")] selects.
Query(table, modelID, userID, requireUser) ==
    { id \in 1..Len(rows[table]) :
        /\ NotDeleted(rows[table][id])
        /\ rows[table][id].model = modelID
        /\ requireUser => rows[table][id].user = userID }

Max(S) == CHOOSE m \in S : \A x \in S : x <= m

\* Order("created_at DESC"): the latest row first.
RECURSIVE Desc(_)
Desc(S) == IF S = {} THEN <<>> ELSE <<Max(S)>> \o Desc(S \ {Max(S)})

\* Offset((page - 1) * pageSize).Limit(pageSize)
Page(list, page, pageSize) ==
    SubSeq(list, (page - 1) * pageSize + 1,
           IF page * pageSize < Len(list) THEN page * pageSize ELSE Len(list))

\* database.DB.Create(&msg) of a completed relay, accepted by the store.
Create ==
    /\ reply = NoReply
    /\ Len(rows["ai_chat_messages"]) + Len(rows["ai_analysis_histories"]) < MaxRows
    /\ \E table \in Tables, model \in ModelIds, user \in UserIds :
          rows' = [rows EXCEPT ![table] = Append(@, Row(model, user, TextOf(table)))]
    /\ UNCHANGED reply

\* chatHistoryScoped / listAnalysisHistoryScoped, and ChatHistory /
\* ListAnalysisHistory, which are the same without the user filter.
historyScoped(op, userID, requireUser) ==
    /\ reply = NoReply
    /\ UNCHANGED rows
    /\ \/ reply' = [NoReply EXCEPT !.op = op, !.status = 400, !.caller = userID]
       \/ \E modelID \in ModelIds, page \in Pages, pageSize \in PageSizes, ok \in BOOLEAN :
             LET found == Query(TableOf(op), modelID, userID, requireUser) IN
             reply' = IF ok
                      THEN [op |-> op, status |-> 200, id |-> 0, caller |-> userID,
                            model |-> modelID, total |-> Cardinality(found),
                            list |-> Page(Desc(found), page, pageSize)]
                      ELSE [NoReply EXCEPT !.op = op, !.status = 500, !.caller = userID]

ChatHistory == historyScoped("ChatHistory", 0, FALSE)
ListAnalysisHistory == historyScoped("ListAnalysisHistory", 0, FALSE)
ChatHistoryApp == \E userID \in AppUsers : historyScoped("ChatHistoryApp", userID, TRUE)
ListAnalysisHistoryApp ==
    \E userID \in AppUsers : historyScoped("ListAnalysisHistoryApp", userID, TRUE)

\* msg.UserID != 0 && msg.UserID != userID
Forbidden(row, userID) == row.user # 0 /\ row.user # userID

\* The delete handlers: parse the id, First, (App: the owner check), Delete.
deleteHistory(op, userID, checkUser) ==
    LET table == TableOf(op)
        Answer(code, id) ==
            reply' = [NoReply EXCEPT !.op = op, !.status = code, !.id = id, !.caller = userID]
    IN  /\ reply = NoReply
        /\ \/ Answer(400, 0) /\ UNCHANGED rows
           \/ \E id \in 1..(Len(rows[table]) + 1) :
                 IF ~First(table, id)
                 THEN Answer(404, id) /\ UNCHANGED rows
                 ELSE IF checkUser /\ Forbidden(rows[table][id], userID)
                 THEN Answer(403, id) /\ UNCHANGED rows
                 ELSE \/ Answer(200, id) /\ rows' = SoftDelete(table, id)
                      \/ Answer(500, id) /\ UNCHANGED rows

DeleteChatHistory == deleteHistory("DeleteChatHistory", 0, FALSE)
DeleteAnalysisHistory == deleteHistory("DeleteAnalysisHistory", 0, FALSE)
DeleteChatHistoryApp ==
    \E userID \in AppUsers : deleteHistory("DeleteChatHistoryApp", userID, TRUE)
DeleteAnalysisHistoryApp ==
    \E userID \in AppUsers : deleteHistory("DeleteAnalysisHistoryApp", userID, TRUE)

\* The handler has returned and its response is with the client: the next request
\* is served.
Answered ==
    /\ reply # NoReply
    /\ reply' = NoReply
    /\ UNCHANGED rows

\* No relay is running: the store and the history handlers alone.
InitHistory == Init /\ handler = "ChatStream"

NextHistory ==
    \/ Create /\ UNCHANGED <<relayVars, pairVars, auxVars>>
    \/ ChatHistory /\ UNCHANGED <<relayVars, pairVars, auxVars>>
    \/ ChatHistoryApp /\ UNCHANGED <<relayVars, pairVars, auxVars>>
    \/ ListAnalysisHistory /\ UNCHANGED <<relayVars, pairVars, auxVars>>
    \/ ListAnalysisHistoryApp /\ UNCHANGED <<relayVars, pairVars, auxVars>>
    \/ DeleteChatHistory /\ UNCHANGED <<relayVars, pairVars, auxVars>>
    \/ DeleteAnalysisHistory /\ UNCHANGED <<relayVars, pairVars, auxVars>>
    \/ DeleteChatHistoryApp /\ UNCHANGED <<relayVars, pairVars, auxVars>>
    \/ DeleteAnalysisHistoryApp /\ UNCHANGED <<relayVars, pairVars, auxVars>>
    \/ Answered /\ UNCHANGED <<relayVars, pairVars, auxVars>>

SpecHistory == InitHistory /\ [][NextHistory]_vars

(***************************************************************************)
(* Two requests in flight.  Each runs the handler's code on its own        *)
(* locals; the scheduler may switch from one to the other between any two  *)
(* steps; database.DB is the one thing they share.                         *)
(***************************************************************************)

\* Lines each of the two relays reads.
MaxPairLines == 2

\* The lines the provider sends in the two-relay runs: deltas and the sentinel.
PairLineIds == { i \in LineIds : UpstreamLines[i].is \in {"delta", "terminal"} }

\* The locals of the running invocation.
Locals ==
    [handler |-> handler, pc |-> pc, ret |-> ret, ctxDone |-> ctxDone, disc |-> disc,
     sseHeader |-> sseHeader, httpCalls |-> httpCalls, status |-> status, lines |-> lines,
     tail |-> tail, aiText |-> aiText, finishedNormally |-> finishedNormally,
     effects |-> effects]

\* The locals a fresh invocation of handler h starts with.
Fresh(h) ==
    [handler |-> h, pc |-> "start", ret |-> "", ctxDone |-> FALSE,
     disc |-> [at |-> -1, pc |-> "", read |-> 0], sseHeader |-> FALSE, httpCalls |-> 0,
     status |-> 0, lines |-> <<>>, tail |-> 0, aiText |-> <<>>,
     finishedNormally |-> FALSE, effects |-> <<>>]

\* Handlers that accumulate into one builder shared by all invocations.
Resume_SharedBuilder(p) ==
    /\ handler' = p.handler /\ pc' = p.pc /\ ret' = p.ret /\ ctxDone' = p.ctxDone
    /\ disc' = p.disc /\ sseHeader' = p.sseHeader /\ httpCalls' = p.httpCalls
    /\ status' = p.status /\ lines' = p.lines /\ tail' = p.tail
    /\ aiText' = aiText
    /\ finishedNormally' = p.finishedNormally /\ effects' = p.effects

\* The invocation with locals p runs on: every variable of the handler is its own
\* (var aiText strings.Builder, finishedNormally := false, reader, ctx, c).
Resume(p) ==
    /\ handler' = p.handler /\ pc' = p.pc /\ ret' = p.ret /\ ctxDone' = p.ctxDone
    /\ disc' = p.disc /\ sseHeader' = p.sseHeader /\ httpCalls' = p.httpCalls
    /\ status' = p.status /\ lines' = p.lines /\ tail' = p.tail
    /\ aiText' = p.aiText
    /\ finishedNormally' = p.finishedNormally /\ effects' = p.effects

\* The scheduler switches to the other request.
Switch ==
    /\ peer' = Locals
    /\ Resume(peer)
    /\ active' = 3 - active
    /\ UNCHANGED <<storeVars, auxVars>>

\* The table each relay inserts into.
StoreTable(kind) == IF kind = "chat" THEN "ai_chat_messages" ELSE "ai_analysis_histories"

\* The rows the store accepted among the effects e, as rows of request r.
RECURSIVE Accepted(_, _)
Accepted(e, r) ==
    IF e = <<>> THEN <<>>
    ELSE (IF Head(e).kind = "store" /\ Head(e).ok
          THEN <<Row(1, r, Head(e).content)>> ELSE <<>>)
         \o Accepted(Tail(e), r)

\* One step of the running request: its accepted inserts reach the shared store,
\* and the provider's stream stays within the bounds of the two-relay runs.
Running ==
    /\ Len(lines') <= MaxPairLines
    /\ \A n \in 1..Len(lines') : lines'[n] \in PairLineIds
    /\ tail' = 0
    /\ LET new == SubSeq(effects', Len(effects) + 1, Len(effects'))
           table == StoreTable(IF handler \in ChatHandlers THEN "chat" ELSE "analysis")
       IN  rows' = [rows EXCEPT ![table] = @ \o Accepted(new, active)]
    /\ UNCHANGED <<reply, pairVars, auxVars>>

InitPair ==
    /\ Quiet
    /\ rows = [t \in Tables |-> <<>>]
    /\ reply = NoReply
    /\ active = 1
    /\ handler = "ChatStream" /\ pc = "start" /\ ret = "" /\ ctxDone = FALSE
    /\ disc = [at |-> -1, pc |-> "", read |-> 0] /\ sseHeader = FALSE /\ httpCalls = 0
    /\ status = 0 /\ lines = <<>> /\ tail = 0 /\ aiText = <<>>
    /\ finishedNormally = FALSE /\ effects = <<>>
    /\ \E h \in {"chatStreamScoped", "AnalyzeExpenses"} : peer = Fresh(h)

NextPair ==
    \/ Switch
    \/ Disconnect /\ Running
    \/ ChatStart /\ Running
    \/ ChatSelect /\ Running
    \/ ChatRead /\ Running
    \/ AnalysisStart /\ Running
    \/ AnalysisSelect /\ Running
    \/ AnalysisRead /\ Running

SpecPair == InitPair /\ [][NextPair]_vars

(***************************************************************************)
(* middleware.LoginRateLimit(maxAttempts, window).  A request reads        *)
(* c.ClientIP() and time.Now(), then takes mu; what it does holding mu is  *)
(* one step.  The cleanup goroutine's pass over the map, under mu, is one  *)
(* step.  An IP with no entry and an IP whose entry is empty behave alike, *)
(* so the map is a function from IPs to timestamp lists.                   *)
(***************************************************************************)

\* Ticks of the clock in a run, and requests in a run.
MaxClock == 3
MaxRequests == 4

\* The arguments of LoginRateLimit, window in ticks.
maxAttempts == 2
window == 2

\* t.After(cutoff)
After(t, cutoff) == t > cutoff

\* The loop that keeps the timestamps after cutoff, in their order.
RECURSIVE Keep(_, _)
Keep(ts, cutoff) ==
    IF ts = <<>> THEN <<>>
    ELSE (IF After(Head(ts), cutoff) THEN <<Head(ts)>> ELSE <<>>) \o Keep(Tail(ts), cutoff)

\* Time passes.
Tick ==
    /\ clock < MaxClock
    /\ clock' = clock + 1
    /\ UNCHANGED <<store, waiting, answers>>

\* ip := c.ClientIP(); now := time.Now()
Arrive ==
    /\ Len(answers) + Cardinality(waiting) < MaxRequests
    /\ \E ip \in IPs :
          waiting' = waiting \cup
                       {[id |-> Len(answers) + Cardinality(waiting) + 1, ip |-> ip, now |-> clock]}
    /\ UNCHANGED <<clock, store, answers>>

\* mu.Lock() ... mu.Unlock(), then c.JSON(429) and c.Abort(), or c.Next().
Limit ==
    \E r \in waiting :
        LET newTs == Keep(store[r.ip], r.now - window) IN
        /\ waiting' = waiting \ {r}
        /\ IF Len(newTs) >= maxAttempts
           THEN /\ store' = [store EXCEPT ![r.ip] = newTs]
                /\ answers' = Append(answers, [ip |-> r.ip, now |-> r.now, at |-> clock,
                                               code |-> 429])
           ELSE /\ store' = [store EXCEPT ![r.ip] = Append(newTs, r.now)]
                /\ answers' = Append(answers, [ip |-> r.ip, now |-> r.now, at |-> clock,
                                               code |-> 200])
        /\ UNCHANGED clock

\* One pass of the cleanup goroutine: cutoff := time.Now().Add(-window) under mu.
Cleanup ==
    /\ store' = [ip \in IPs |-> Keep(store[ip], clock - window)]
    /\ store' # store
    /\ UNCHANGED <<clock, waiting, answers>>

InitRate == Init /\ handler = "ChatStream"

NextRate ==
    \/ Tick /\ UNCHANGED <<relayVars, storeVars, pairVars, pathVars, cookieVars, resetVars, bindVars>>
    \/ Arrive /\ UNCHANGED <<relayVars, storeVars, pairVars, pathVars, cookieVars, resetVars, bindVars>>
    \/ Limit /\ UNCHANGED <<relayVars, storeVars, pairVars, pathVars, cookieVars, resetVars, bindVars>>
    \/ Cleanup /\ UNCHANGED <<relayVars, storeVars, pairVars, pathVars, cookieVars, resetVars, bindVars>>

SpecRate == InitRate /\ [][NextRate]_vars

(***************************************************************************)
(* middleware.matchPath.  A path is a sequence of characters.              *)
(***************************************************************************)

\* The longest request path and the longest pattern of a run.
MaxActual == 4
MaxPattern == 5

\* '/', ':' and a letter.
PathChars == {"/", ":", "a"}

\* The strings of at most n characters.
Strings(n) == UNION { [1..k -> PathChars] : k \in 0..n }

\* normalizePath
normalizePath(p) ==
    IF p = <<>> THEN <<"/">>
    ELSE IF p[1] # "/" THEN <<"/">> \o p
    ELSE p

\* strings.Trim(s, "/")
RECURSIVE Trim(_)
Trim(s) ==
    IF s = <<>> THEN s
    ELSE IF Head(s) = "/" THEN Trim(Tail(s))
    ELSE IF s[Len(s)] = "/" THEN Trim(SubSeq(s, 1, Len(s) - 1))
    ELSE s

\* strings.Split(s, "/"): n separators give n + 1 parts, empty ones included.
RECURSIVE Split(_)
Split(s) ==
    IF \A i \in 1..Len(s) : s[i] # "/" THEN <<s>>
    ELSE LET i == CHOOSE j \in 1..Len(s) : s[j] = "/" /\ \A k \in 1..(j - 1) : s[k] # "/"
         IN  <<SubSeq(s, 1, i - 1)>> \o Split(SubSeq(s, i + 1, Len(s)))

\* splitPath
splitPath(s) ==
    LET t == Trim(s) IN
    IF t = <<>> THEN <<>> ELSE Split(t)

\* The loop of matchPath from index i on.
RECURSIVE matchFrom(_, _, _)
matchFrom(a, p, i) ==
    IF i > Len(a) THEN TRUE
    ELSE IF Len(p[i]) > 0 /\ p[i][1] = ":"
         THEN (IF a[i] = <<>> THEN FALSE ELSE matchFrom(a, p, i + 1))
         ELSE (IF a[i] # p[i] THEN FALSE ELSE matchFrom(a, p, i + 1))

\* A matchPath whose placeholder also takes an empty segment.
matchPath_AnySegment(act, pat) ==
    LET a == splitPath(normalizePath(act))
        p == splitPath(normalizePath(pat))
    IN  /\ Len(a) = Len(p)
        /\ \A i \in 1..Len(a) : (Len(p[i]) > 0 /\ p[i][1] = ":") \/ a[i] = p[i]

\* matchPath
matchPath(act, pat) ==
    LET a == splitPath(normalizePath(act))
        p == splitPath(normalizePath(pat))
    IN  IF Len(a) # Len(p) THEN FALSE ELSE matchFrom(a, p, 1)

\* matchPath(path, parts[1]) is called and returns.
Match ==
    /\ matched = "unset"
    /\ matched' = IF matchPath(actual, pattern) THEN "true" ELSE "false"
    /\ UNCHANGED <<actual, pattern>>

InitPath ==
    /\ Idle /\ Alone /\ RateQuiet /\ CookieQuiet /\ ResetQuiet /\ BindQuiet
    /\ actual \in Strings(MaxActual)
    /\ pattern \in Strings(MaxPattern)
    /\ matched = "unset"

NextPath == Match /\ UNCHANGED <<relayVars, storeVars, pairVars, rateVars, cookieVars, resetVars, bindVars>>

SpecPath == InitPath /\ [][NextPath]_vars

(***************************************************************************)
(* api/cookie.go: signCookieValue and verifyCookieValue.  A cookie is a    *)
(* sequence of characters.  The hex HMAC of a value is a sequence of       *)
(* blocks of hex digits: one that stands for the key, then one for each    *)
(* character of the value, so that it depends on the key and on every      *)
(* character, and holds no '.'.                                            *)
(***************************************************************************)

\* The longest value signed in a run.
MaxValue == 3

\* The characters of a value: '.' and a letter.
ValueChars == {".", "a"}
Values == UNION { [1..k -> ValueChars] : k \in 0..MaxValue }

\* cfg.JWT.Secret: not configured, or configured.
Secrets == {"", "test-secret"}

\* if secret == "" { secret = "finance-default-cookie-secret" }
Key(k) == IF k = "" THEN "finance-default-cookie-secret" ELSE k

\* The hex digits of one character.
Hex(c) == IF c = "." THEN "2e" ELSE IF c = "a" THEN "61" ELSE "3f"

\* hex.EncodeToString(hmac.New(sha256.New, secret).Write(value).Sum(nil))
Mac(k, v) == <<k>> \o [i \in 1..Len(v) |-> Hex(v[i])]

\* signCookieValue
signCookieValue(v, k) == v \o <<".">> \o Mac(Key(k), v)

\* strings.Index(signed, "."): the first '.', -1 if there is none.
LastIndex_First(str) ==
    IF \A i \in 1..Len(str) : str[i] # "." THEN -1
    ELSE (CHOOSE i \in 1..Len(str) : str[i] = "." /\ \A j \in 1..(i - 1) : str[j] # ".") - 1

\* strings.LastIndex(signed, "."): the last '.', counted from 0, -1 if there is none.
LastIndex(str) ==
    IF \A i \in 1..Len(str) : str[i] # "." THEN -1
    ELSE (CHOOSE i \in 1..Len(str) :
              str[i] = "." /\ \A j \in (i + 1)..Len(str) : str[j] # ".") - 1

\* verifyCookieValue
verifyCookieValue(str, k) ==
    IF str = <<>> THEN [value |-> <<>>, err |-> "empty cookie"]
    ELSE LET idx == LastIndex(str) IN
         IF idx <= 0 THEN [value |-> <<>>, err |-> "invalid cookie format"]
         ELSE LET val == SubSeq(str, 1, idx)
                  signature == SubSeq(str, idx + 2, Len(str))
              IN  IF signature # Mac(Key(k), val)
                  THEN [value |-> <<>>, err |-> "cookie signature invalid"]
                  ELSE [value |-> val, err |-> ""]

\* The cookies a client may send: any characters, with or without a '.' and the
\* HMAC of some value under some key after them.
Cookies ==
    { x \o t : x \in Values,
               t \in {<<>>} \cup { <<".">> \o Mac(Key(k), v) : k \in Secrets, v \in Values } }

\* The server sets the cookie: signCookieValue(value).
SignCookie ==
    /\ verified.stage = "new"
    /\ signed' = signCookieValue(value, secret)
    /\ verified' = [verified EXCEPT !.stage = "signed"]
    /\ UNCHANGED <<secret, value>>

\* The client sends a cookie of its own making.
ForgeCookie ==
    /\ verified.stage = "new"
    /\ signed' \in Cookies
    /\ verified' = [verified EXCEPT !.stage = "forged"]
    /\ UNCHANGED <<secret, value>>

\* value, err := verifyCookieValue(raw)
VerifyCookie ==
    /\ verified.stage \in {"signed", "forged"}
    /\ LET got == verifyCookieValue(signed, secret) IN
       verified' = [stage |-> IF verified.stage = "signed" THEN "round trip" ELSE "checked",
                    value |-> got.value, err |-> got.err]
    /\ UNCHANGED <<secret, value, signed>>

InitCookie ==
    /\ Idle /\ Alone /\ RateQuiet /\ PathQuiet /\ ResetQuiet /\ BindQuiet
    /\ secret \in Secrets
    /\ value \in Values
    /\ signed = <<>>
    /\ verified = [stage |-> "new", value |-> <<>>, err |-> ""]

NextCookie ==
    \/ SignCookie /\ UNCHANGED <<relayVars, storeVars, pairVars, rateVars, pathVars, resetVars, bindVars>>
    \/ ForgeCookie /\ UNCHANGED <<relayVars, storeVars, pairVars, rateVars, pathVars, resetVars, bindVars>>
    \/ VerifyCookie /\ UNCHANGED <<relayVars, storeVars, pairVars, rateVars, pathVars, resetVars, bindVars>>

SpecCookie == InitCookie /\ [][NextCookie]_vars

(***************************************************************************)
(* api/password_reset.go ResetPassword and AppResetPassword: one row of    *)
(* password_resets holds the code.  Each statement sent to the database is *)
(* one step; the handlers take no lock and open no transaction.            *)
(***************************************************************************)

ResetHandlers == {"ResetPassword", "AppResetPassword"}

\* The code a call presents: the one that was sent, or another.
Codes == {"sent", "other"}

\* PasswordReset.IsValid, with IsExpired as time.Now().After(ExpiresAt)
IsValid(p) == ~p.Used /\ ~p.expired

\* Where(email, token).First(&passwordReset) and the IsValid check on what it read.
ResetFind(c) ==
    /\ resetCalls[c].pc = "idle"
    /\ \E h \in ResetHandlers, code \in Codes :
          LET call == [NoCall EXCEPT !.handler = h, !.code = code,
                          !.late = \E d \in Calls : resetCalls[d].reply = "ok"]
              answer == IF code # "sent" THEN "wrong code"
                       ELSE IF IsValid(passwordReset) THEN ""
                       ELSE IF passwordReset.Used THEN "used" ELSE "expired"
          IN  resetCalls' = [resetCalls EXCEPT ![c] =
                  [call EXCEPT !.pc = IF answer = "" THEN "found" ELSE "done", !.reply = answer]]
    /\ UNCHANGED <<passwordReset, password>>

\* Model(&models.User{}).Where(id).Update("password", hashedPassword)
ResetUpdate(c) ==
    /\ resetCalls[c].pc = "found"
    /\ \E ok \in BOOLEAN :
          IF ok
          THEN /\ password' = c
               /\ resetCalls' = [resetCalls EXCEPT ![c].pc = "updated"]
          ELSE /\ password' = password
               /\ resetCalls' = [resetCalls EXCEPT ![c].pc = "done", ![c].reply = "update failed"]
    /\ UNCHANGED passwordReset

\* Update("used", true) on the row and on the user's other rows, then the 200.
ResetMark(c) ==
    /\ resetCalls[c].pc = "updated"
    /\ passwordReset' = [passwordReset EXCEPT !.Used = TRUE]
    /\ resetCalls' = [resetCalls EXCEPT ![c].pc = "done", ![c].reply = "ok"]
    /\ UNCHANGED password

\* time.Now() passes the row's ExpiresAt.
Expire ==
    /\ ~passwordReset.expired
    /\ passwordReset' = [passwordReset EXCEPT !.expired = TRUE]
    /\ UNCHANGED <<resetCalls, password>>

InitReset == Init /\ handler = "ChatStream"

NextReset ==
    \/ (\E c \in Calls : ResetFind(c)) /\ UNCHANGED <<relayVars, storeVars, pairVars, rateVars, pathVars, cookieVars, bindVars>>
    \/ (\E c \in Calls : ResetUpdate(c)) /\ UNCHANGED <<relayVars, storeVars, pairVars, rateVars, pathVars, cookieVars, bindVars>>
    \/ (\E c \in Calls : ResetMark(c)) /\ UNCHANGED <<relayVars, storeVars, pairVars, rateVars, pathVars, cookieVars, bindVars>>
    \/ Expire /\ UNCHANGED <<relayVars, storeVars, pairVars, rateVars, pathVars, cookieVars, bindVars>>

SpecReset == InitReset /\ [][NextReset]_vars

(***************************************************************************)
(* api/feishu_auth.go: GetFeishuBindToken and the bind branch of           *)
(* FeishuCallback.  Tokens are numbered in the order they are drawn; what  *)
(* runs between feishuBindTokensMu.Lock() and Unlock() is one step.        *)
(***************************************************************************)

\* The tokens handed out in a run.
MaxTokens == 1

\* feishuBindTokenTTL, in ticks.
feishuBindTokenTTL == 2

\* The clock runs until the first token has expired.
MaxNow == feishuBindTokenTTL + 1

\* The logged-in users; 0 is no user.
BindUsers == {1, 2}

\* delete(feishuBindTokens, token) that removes nothing.
Remove_Keep(m, token) == m

\* delete(feishuBindTokens, token)
Remove(m, token) == [t \in DOMAIN m \ {token} |-> m[t]]

\* The cleanup loop of GetFeishuBindToken: entries with time.Now().After(ExpiresAt) go.
Unexpired(m, t) == [k \in {j \in DOMAIN m : ~(t > m[j].ExpiresAt)} |-> m[k]]

\* GetFeishuBindToken of a logged-in user.
GetFeishuBindToken(u) ==
    /\ Len(issued) < MaxTokens
    /\ LET token == Len(issued) + 1
           entry == [UserID |-> u, ExpiresAt |-> now + feishuBindTokenTTL]
           put == [t \in DOMAIN feishuBindTokens \cup {token} |->
                      IF t = token THEN entry ELSE feishuBindTokens[t]]
       IN  /\ feishuBindTokens' = Unexpired(put, now)
           /\ issued' = Append(issued, entry)
    /\ UNCHANGED <<callbacks, now>>

\* FeishuCallback with state "bind" (token 0) or "bind:" and a token: the lookup
\* and the delete under the lock.  Callbacks are numbered in the order they
\* take the lock.
CallbackLookup(k) ==
    /\ callbacks[k].pc = "idle"
    /\ IF k = 1 THEN TRUE ELSE callbacks[k - 1].pc # "idle"
    /\ \E token \in 0..MaxTokens :
          LET ok == token \in DOMAIN feishuBindTokens
              entry == IF ok THEN feishuBindTokens[token] ELSE [UserID |-> 0, ExpiresAt |-> 0]
          IN  /\ callbacks' = [callbacks EXCEPT ![k] =
                      [NoCallback EXCEPT !.pc = "looked", !.token = token, !.ok = ok,
                                         !.UserID = entry.UserID, !.ExpiresAt = entry.ExpiresAt]]
              /\ feishuBindTokens' = IF ok THEN Remove(feishuBindTokens, token)
                                     ELSE feishuBindTokens
    /\ UNCHANGED <<issued, now>>

\* The rest of the bind branch: time.Now().Before(entry.ExpiresAt), DB.First of
\* the user, and getCurrentUser(c) when the token gave no user.
CallbackIdentify(k) ==
    /\ callbacks[k].pc = "looked"
    /\ \E found \in BOOLEAN, cookie \in {0} \cup BindUsers :
          LET cb == callbacks[k]
              byToken == cb.ok /\ now < cb.ExpiresAt /\ found
          IN  callbacks' = [callbacks EXCEPT ![k] =
                  [NoCallback EXCEPT
                             !.pc = "done", !.token = cb.token,
                             !.at = IF byToken THEN now ELSE 0,
                             !.currentUser = IF byToken THEN cb.UserID ELSE cookie,
                             !.by = IF byToken THEN "token"
                                    ELSE IF cookie # 0 THEN "cookie" ELSE "nobody"]]
    /\ UNCHANGED <<feishuBindTokens, issued, now>>

\* Time passes.
BindTick ==
    /\ now < MaxNow
    /\ now' = now + 1
    /\ UNCHANGED <<feishuBindTokens, callbacks, issued>>

InitBind == Init /\ handler = "ChatStream"

NextBind ==
    \/ (\E u \in BindUsers : GetFeishuBindToken(u)) /\ UNCHANGED <<relayVars, storeVars, pairVars, rateVars, pathVars, cookieVars, resetVars>>
    \/ (\E k \in Callbacks : CallbackLookup(k)) /\ UNCHANGED <<relayVars, storeVars, pairVars, rateVars, pathVars, cookieVars, resetVars>>
    \/ (\E k \in Callbacks : CallbackIdentify(k)) /\ UNCHANGED <<relayVars, storeVars, pairVars, rateVars, pathVars, cookieVars, resetVars>>
    \/ BindTick /\ UNCHANGED <<relayVars, storeVars, pairVars, rateVars, pathVars, cookieVars, resetVars>>

SpecBind == InitBind /\ [][NextBind]_vars

(***************************************************************************)
(* What a run shows of itself.                                             *)
(***************************************************************************)
IsFrame(e) == e.kind = "sse"
IsDelta(e) == e.kind = "sse" /\ e.type = "delta"
IsDoneFrame(e) == e.kind = "sse" /\ e.type = "done"
IsErrorFrame(e) == e.kind = "sse" /\ e.type = "error"
IsBody(e) == e.kind = "json"
IsInsert(e) == e.kind = "store"
IsRow(e) == e.kind = "store" /\ e.ok

\* The SSE frames written to the response, the inserts attempted, the rows stored.
Frames == SelectSeq(effects, IsFrame)
Inserts == SelectSeq(effects, IsInsert)
Transcripts == SelectSeq(effects, IsRow)
Bodies == SelectSeq(effects, IsBody)

\* The store accepted every insert of the run.
StoreUp == \A n \in 1..Len(effects) : IsInsert(effects[n]) => effects[n].ok

\* The relay left its loop on the sentinel or on a clean EOF.
Completed == ret = "end"
EndedBySentinel ==
    Completed /\ lines # <<>> /\ UpstreamLines[lines[Len(lines)]].is = "terminal"
EndedByEOF == Completed /\ ~EndedBySentinel

\* c1 + c2 + ... + cn over the lines read, by what each line is in the protocol.
RECURSIVE ExpectedText(_)
ExpectedText(ids) ==
    IF ids = <<>> THEN <<>>
    ELSE ExpectedText(SubSeq(ids, 1, Len(ids) - 1))
         \o (IF UpstreamLines[ids[Len(ids)]].is = "delta"
             THEN UpstreamLines[ids[Len(ids)]].text ELSE <<>>)

\* One delta frame per delta line read, in arrival order.
RECURSIVE ExpectedDeltaFrames(_)
ExpectedDeltaFrames(ids) ==
    IF ids = <<>> THEN <<>>
    ELSE ExpectedDeltaFrames(SubSeq(ids, 1, Len(ids) - 1))
         \o (IF UpstreamLines[ids[Len(ids)]].is = "delta"
             THEN <<Sse("delta", UpstreamLines[ids[Len(ids)]].text)>> ELSE <<>>)

(***************************************************************************)
(* C1.  A relay whose upstream ends with [DONE] or with a clean EOF        *)
(* creates exactly one transcript row, given that the store accepts the    *)
(* writes.  ChatStream and chatStreamScoped create two rows on [DONE]: the *)
(* branch inside the loop creates one and the block after the loop,        *)
(* entered because finishedNormally is set, creates another.               *)
(***************************************************************************)
C1_ExactlyOneTranscript ==
    (Completed /\ StoreUp) => Len(Transcripts) = 1

(***************************************************************************)
(* C2.  At most one done frame is ever written; a relay that ends with     *)
(* [DONE] or a clean EOF writes exactly one, after every delta frame.  On  *)
(* [DONE] every path writes two: the loop (or processAnalysisLineToJSON)   *)
(* writes one and the block after the loop writes another.                 *)
(***************************************************************************)
DoneFrames == SelectSeq(effects, IsDoneFrame)

C2_ExactlyOneDone ==
    /\ Len(DoneFrames) <= 1
    /\ Completed =>
          /\ Len(DoneFrames) = 1
          /\ Frames # <<>> /\ IsDoneFrame(Frames[Len(Frames)])
          /\ \A n \in 1..(Len(Frames) - 1) : IsDelta(Frames[n])

(***************************************************************************)
(* C3.  Accumulation fidelity: every transcript handed to the store at     *)
(* completion carries c1 + c2 + ... + cn, the contents of the delta lines  *)
(* read, in arrival order, whatever blank, unprefixed and malformed lines  *)
(* came between them.                                                      *)
(***************************************************************************)
C3_AccumulationFidelity ==
    \A n \in 1..Len(effects) :
        IsInsert(effects[n]) => effects[n].content = ExpectedText(lines)

\* Two deltas with a malformed line between them, completed and stored.
C3_Witness ==
    /\ Completed
    /\ Len(Transcripts) >= 1
    /\ Len(lines) = 3
    /\ UpstreamLines[lines[1]].is = "delta"
    /\ UpstreamLines[lines[2]].is = "malformed"
    /\ UpstreamLines[lines[3]].is = "delta"
    /\ lines[1] # lines[3]
    /\ Transcripts[1].content = UpstreamLines[lines[1]].text \o UpstreamLines[lines[3]].text

(***************************************************************************)
(* C4.  A relay that observes the client gone at its check before a read   *)
(* hands nothing to the store.                                             *)
(***************************************************************************)
C4_NoPersistOnCancel ==
    ret = "cancel" => Inserts = <<>>

\* Cancellation observed after a delta was forwarded.
C4_Witness ==
    /\ ret = "cancel"
    /\ \E n \in 1..Len(Frames) : IsDelta(Frames[n])
    /\ aiText # <<>>

(***************************************************************************)
(* C5.  As claimed: once the client has gone after receiving a delta frame *)
(* and before the relay read [DONE], no further frame is written and no    *)
(* transcript is stored, whatever the upstream delivers next, also when    *)
(* the relay was blocked in the read.  The relay polls ctx.Done only       *)
(* before a read, so a read in progress still returns its line and that    *)
(* line is processed: a delta is forwarded, [DONE] or EOF completes the    *)
(* relay.                                                                  *)
(***************************************************************************)
DeltaBeforeDisconnect ==
    disc.at > 0 /\ \E n \in 1..disc.at : IsDelta(effects[n])

FramesAfterDisconnect ==
    SelectSeq(SubSeq(effects, disc.at + 1, Len(effects)), IsFrame)

C6_NoPersistOnFault ==
    ret = "fault" => (Inserts = <<>> /\ DoneFrames = <<>>)

\* A read fault after a delta was forwarded.
C6_Witness ==
    /\ ret = "fault"
    /\ \E n \in 1..Len(Frames) : IsDelta(Frames[n])

(***************************************************************************)
(* C7.  As claimed: when the provider answers with a non-success status,   *)
(* no SSE frame is written on any path, the caller gets exactly one        *)
(* structured error body carrying the status code, and nothing is stored.  *)
(* ChatStream and chatStreamScoped write an error frame and a done frame.  *)
(***************************************************************************)
NonSuccess == status # 0 /\ status \notin 200..299

Carries(e, code) == \E k \in 1..Len(e.content) : e.content[k] = ToString(code)

C8_ErrorThenDone ==
    \A n \in 1..Len(effects) :
        IsErrorFrame(effects[n]) =>
            /\ n < Len(effects) /\ IsDoneFrame(effects[n + 1])
            /\ \A k \in 1..Len(effects) : ~IsDelta(effects[k])
            /\ Inserts = <<>>

\* An error frame was written, for an upstream 401.
C8_Witness ==
    /\ status = 401
    /\ \E n \in 1..Len(effects) : IsErrorFrame(effects[n])

(***************************************************************************)
(* C9.  Malformed-frame tolerance: reading a data line whose payload does  *)
(* not parse, has no string choices[0].delta.content, or has empty content *)
(* writes nothing, leaves the accumulator as it was and goes on to the     *)
(* next iteration; a delta line read after such a line is forwarded and    *)
(* accumulated.                                                            *)
(***************************************************************************)
SawMalformed == \E n \in 1..Len(lines) : UpstreamLines[lines[n]].is = "malformed"

C9_MalformedTolerated ==
    [][\A i \in LineIds :
          (pc = "read" /\ lines' = Append(lines, i)) =>
              /\ UpstreamLines[i].is = "malformed" =>
                    /\ effects' = effects
                    /\ aiText' = aiText
                    /\ pc' = "select" /\ ret' = ""
              /\ (UpstreamLines[i].is = "delta" /\ SawMalformed) =>
                    /\ effects' = Append(effects, Sse("delta", UpstreamLines[i].text))
                    /\ aiText' = aiText \o UpstreamLines[i].text
                    /\ pc' = "select" /\ ret' = ""]_vars

\* A malformed line, then a delta that was forwarded and accumulated.
C9_Witness ==
    /\ Len(lines) = 2
    /\ UpstreamLines[lines[1]].is = "malformed"
    /\ UpstreamLines[lines[2]].is = "delta"
    /\ Frames = <<Sse("delta", UpstreamLines[lines[2]].text)>>
    /\ aiText = UpstreamLines[lines[2]].text
    /\ pc = "select"

(***************************************************************************)
(* C10.  Tolerated EOF is equivalent to the sentinel: for the same lines,  *)
(* both endings give the delta frames followed by one done frame, and one  *)
(* stored row with the concatenated contents.  Stated of one run: every    *)
(* completed run, however it ended, shows exactly that outcome for the     *)
(* lines it read.  The runs that end with EOF do; the runs that end with   *)
(* [DONE] write a second done frame and, on the chat paths, a second row.  *)
(***************************************************************************)
CanonicalOutcome ==
    /\ Frames = ExpectedDeltaFrames(lines) \o <<Sse("done", <<>>)>>
    /\ Len(Transcripts) = 1
    /\ Transcripts[1].content = ExpectedText(lines)

C10_EOFEquivalentToSentinel ==
    (Completed /\ StoreUp) => CanonicalOutcome

\* The EOF half of the comparison, which the code satisfies.
EOFOutcomeCanonical ==
    (EndedByEOF /\ StoreUp) => CanonicalOutcome

C12_StoreFailureSwallowed ==
    (Completed /\ ~StoreUp) =>
        /\ DoneFrames # <<>>
        /\ \A n \in 1..Len(effects) : ~IsErrorFrame(effects[n])
        /\ Bodies = <<>>
        /\ Len(Inserts) = 1

(***************************************************************************)
(* C13.  A relay makes at most one request to the provider: after a        *)
(* transport failure, a status that is not 200 or a read fault the handler *)
(* has returned and never issues the request again.                        *)
(***************************************************************************)
C13_AtMostOneRequest ==
    /\ httpCalls <= 1
    /\ ret \in {"prestream", "fault"} => pc = "return"

\* The one request was made and the body failed in mid-stream.
C13_Witness ==
    /\ ret = "fault"
    /\ httpCalls = 1
    /\ lines # <<>>

(***************************************************************************)
(* C14.  The model's secret key never appears in a frame or a body sent to *)
(* the client, also on the error paths that echo the transport error or    *)
(* the provider's error body.  The handlers copy the provider's error body *)
(* into the frame (chat) or the body (analysis) as it came, so a provider  *)
(* that quotes the credential it refused sends the key to the client.      *)
(***************************************************************************)
ShowsKey(e) == \E k \in 1..Len(e.content) : e.content[k] = APIKey

C14_KeyNeverSent ==
    \A n \in 1..Len(effects) :
        (IsFrame(effects[n]) \/ IsBody(effects[n])) => ~ShowsKey(effects[n])

(***************************************************************************)
(* C15.  Client cancellation is silent: a relay that has observed the      *)
(* client gone writes nothing further to the response, no frame and no     *)
(* error body, and reports no error; the response holds the delta frames   *)
(* forwarded before and nothing else.  callAIModelStreamAndStore returns   *)
(* an error on cancellation and both its callers answer it with a 500      *)
(* body.                                                                   *)
(***************************************************************************)
C15_SilentCancellation ==
    ret = "cancel" =>
        /\ Bodies = <<>>
        /\ \A n \in 1..Len(effects) : IsDelta(effects[n])

(***************************************************************************)
(* C16.  Once the response is streaming, a read fault shows to the client  *)
(* only as the stream ending: after the last forwarded delta frame nothing *)
(* is written, no frame and no JSON error body, on the analysis path as on *)
(* the chat paths.  The analysis callers answer the error that             *)
(* callAIModelStreamAndStore returns with a 500 body.                      *)
(***************************************************************************)
C16_FaultEndsStream ==
    ret = "fault" =>
        /\ effects = ExpectedDeltaFrames(lines)
        /\ sseHeader

(***************************************************************************)
(* C17.  In every completed run the transcript write is attempted before   *)
(* the first done frame is written.  On [DONE] the analysis path writes    *)
(* done in processAnalysisLineToJSON, before the Create that follows the   *)
(* loop.                                                                   *)
(***************************************************************************)
C17_PersistBeforeDone ==
    Completed =>
        \E n \in 1..Len(effects) :
            /\ IsInsert(effects[n])
            /\ \A k \in 1..(n - 1) : ~IsDoneFrame(effects[k])

\* The row a delete handler was asked for, when it exists.
Asked == rows[TableOf(reply.op)][reply.id]

(***************************************************************************)
(* C19.  A transcript row never changes its text after it was created; a   *)
(* delete handler that answers 200 has soft-deleted the row (it stays in   *)
(* the table, marked); a soft-deleted row stays so, and no history listing *)
(* answered afterwards returns it or counts it in total.                   *)
(***************************************************************************)
C19_TranscriptLifecycle ==
    [][ /\ \A t \in Tables : \A i \in 1..Len(rows[t]) :
              /\ i <= Len(rows'[t])
              /\ rows'[t][i].text = rows[t][i].text
              /\ rows[t][i].deleted => rows'[t][i].deleted
        /\ (reply'.op \in AdminDeleteOps \cup AppDeleteOps /\ reply'.status = 200) =>
              /\ ~rows[TableOf(reply'.op)][reply'.id].deleted
              /\ rows'[TableOf(reply'.op)][reply'.id].deleted
        /\ (reply'.op \in ListOps /\ reply'.status = 200) =>
              LET t == TableOf(reply'.op) IN
              /\ \A k \in 1..Len(reply'.list) : ~rows'[t][reply'.list[k]].deleted
              /\ reply'.total =
                   Cardinality({ i \in 1..Len(rows'[t]) :
                                   /\ ~rows'[t][i].deleted
                                   /\ rows'[t][i].model = reply'.model
                                   /\ reply'.op \in AppOps => rows'[t][i].user = reply'.caller })
      ]_vars

\* A listing answered after a delete: a row that matches the query is soft-deleted,
\* another is returned.
C19_Witness ==
    /\ reply.op = "ChatHistory"
    /\ reply.status = 200
    /\ reply.total = 1
    /\ \E i \in 1..Len(rows["ai_chat_messages"]) :
          /\ rows["ai_chat_messages"][i].deleted
          /\ rows["ai_chat_messages"][i].model = reply.model

(***************************************************************************)
(* C20.  DeleteChatHistoryApp and DeleteAnalysisHistoryApp delete a row    *)
(* only if its user id is the caller's, and answer 403 for every row of    *)
(* anyone else, the rows stored with user id 0 included.  The handlers let *)
(* every caller delete a row whose user id is 0.                           *)
(***************************************************************************)
C20_OwnTranscriptsOnly ==
    (reply.op \in AppDeleteOps /\ reply.status \notin {400, 404}) =>
        /\ Asked.deleted => Asked.user = reply.caller
        /\ Asked.user # reply.caller => reply.status = 403

\* What one relay has sent and stored is what its own upstream delivered: one
\* delta frame per delta line it read, every insert with the text of those lines,
\* and it returned on cancellation only if its own client went.
OwnOutput(l) ==
    /\ SelectSeq(l.effects, IsDelta) = ExpectedDeltaFrames(l.lines)
    /\ \A n \in 1..Len(l.effects) :
          IsInsert(l.effects[n]) => l.effects[n].content = ExpectedText(l.lines)
    /\ l.ret = "cancel" => l.disc.at >= 0

(***************************************************************************)
(* C18.  Two relays in flight are independent under every interleaving:    *)
(* each relay's frames and inserts carry exactly the deltas of its own     *)
(* upstream, every stored row carries the text of the relay that wrote it, *)
(* and a step of one relay - reading, cancelling, failing, completing -    *)
(* leaves the other relay's locals and the rows already stored as they     *)
(* were.                                                                   *)
(***************************************************************************)
C18_RelaysIndependent ==
    [][ /\ OwnOutput(Locals')
        /\ OwnOutput(peer')
        /\ \A t \in Tables : \A i \in 1..Len(rows'[t]) :
              rows'[t][i].text =
                  ExpectedText(IF rows'[t][i].user = active' THEN lines' ELSE peer'.lines)
        /\ active' = active =>
              /\ peer' = peer
              /\ \A t \in Tables :
                    /\ Len(rows'[t]) >= Len(rows[t])
                    /\ SubSeq(rows'[t], 1, Len(rows[t])) = rows[t]
                    /\ \A i \in (Len(rows[t]) + 1)..Len(rows'[t]) : rows'[t][i].user = active
      ]_vars

\* Both relays have completed, each with its own text, and the store holds a row
\* of each.
C18_Witness ==
    /\ ret = "end" /\ peer.ret = "end"
    /\ aiText # <<>> /\ peer.aiText # <<>> /\ aiText # peer.aiText
    /\ \E i, j \in 1..Len(rows["ai_chat_messages"]) :
          /\ rows["ai_chat_messages"][i].user = 1
          /\ rows["ai_chat_messages"][j].user = 2

(***************************************************************************)
(* C24.  Every 2xx answer of the provider enters the streaming phase; only *)
(* the other statuses take the upstream-error path, on which the body is   *)
(* read whole and no line is streamed.  The handlers compare the status    *)
(* with 200 alone, so 201..299 take the error path.                        *)
(***************************************************************************)
C24_SuccessIs2xx ==
    status # 0 =>
        /\ status \in 200..299 => ret # "prestream"
        /\ status \notin 200..299 => (ret = "prestream" /\ lines = <<>>)

(***************************************************************************)
(* C25.  After the client has gone the relay reads and processes at most   *)
(* one more upstream line: the read that was pending.  The check before    *)
(* the next read then ends the relay.                                      *)
(***************************************************************************)
C25_CancellationLatency ==
    ctxDone =>
        /\ Len(lines) <= disc.read + 1
        /\ disc.pc = "select" => Len(lines) = disc.read
        /\ Len(SelectSeq(effects, IsDelta)) <= disc.at + 1

\* The client went during a read, the read returned a delta line, which was
\* forwarded, and the next check ended the relay.
C25_Witness ==
    /\ ret = "cancel"
    /\ disc.pc = "read"
    /\ Len(lines) = disc.read + 1
    /\ UpstreamLines[lines[Len(lines)]].is = "delta"

\* The sentinel is among the lines read.
SentinelRead == \E n \in 1..Len(lines) : UpstreamLines[lines[n]].is = "terminal"

(***************************************************************************)
(* C26.  The terminal states are absorbing: every step of a relay - a      *)
(* read, a frame, an insert, the client's disconnect being noticed - is    *)
(* taken by a relay that has not returned and has not read [DONE]; a relay *)
(* that has returned has read no line after [DONE] and its effects end     *)
(* with what its exit wrote.                                               *)
(***************************************************************************)
C26_TerminalAbsorbing ==
    [][ /\ pc # "return"
        /\ ~SentinelRead
        /\ pc' = "return" => ret' \in {"bind", "nomodel", "norecords", "prestream",
                                       "cancel", "fault", "end"}
      ]_vars

\* A relay has returned on the sentinel after forwarding a delta.
C26_Witness ==
    /\ pc = "return"
    /\ EndedBySentinel
    /\ Len(lines) >= 2
    /\ SelectSeq(effects, IsDelta) # <<>>

\* The contents of the delta frames in e, concatenated in order.
RECURSIVE Emitted(_)
Emitted(e) ==
    IF e = <<>> THEN <<>>
    ELSE Emitted(SubSeq(e, 1, Len(e) - 1))
         \o (IF IsDelta(e[Len(e)]) THEN e[Len(e)].content ELSE <<>>)

C28_UnterminatedTailDiscarded ==
    tail # 0 =>
        /\ EndedByEOF
        /\ SelectSeq(effects, IsDelta) = ExpectedDeltaFrames(lines)
        /\ aiText = ExpectedText(lines)
        /\ Len(Inserts) = 1 /\ Inserts[1].content = ExpectedText(lines)
        /\ Len(DoneFrames) = 1

\* The body ended with an unterminated delta line after a terminated one.
C28_Witness ==
    /\ tail = 1
    /\ ret = "end"
    /\ lines # <<>>
    /\ Transcripts # <<>>

\* The requests of ip let through whose time lies in the interval (t - window, t].
PassedIn(ip, t) ==
    { n \in 1..Len(answers) :
        /\ answers[n].ip = ip
        /\ answers[n].code = 200
        /\ answers[n].now > t - window
        /\ answers[n].now <= t }

(***************************************************************************)
(* C21.  For every client IP and every interval of length window, at most  *)
(* maxAttempts requests of that IP made in the interval are passed to the  *)
(* next handler, whatever the interleaving of the requests and the cleanup *)
(* goroutine.  A request reads time.Now() before it takes mu, so a request *)
(* that read the time earlier can hold mu after a later request or the     *)
(* cleanup has dropped the timestamps that still lie in its own window.    *)
(***************************************************************************)
C21_AtMostMaxAttempts ==
    \A ip \in IPs : \A t \in 0..MaxClock :
        Cardinality(PassedIn(ip, t)) <= maxAttempts

\* The part of s between its first and its last character that is not '/'.
Inner(s) ==
    LET in == { i \in 1..Len(s) : s[i] # "/" } IN
    IF in = {} THEN <<>>
    ELSE SubSeq(s, CHOOSE i \in in : \A j \in in : i <= j, CHOOSE i \in in : \A j \in in : j <= i)

\* The places of the separators of s, with the two ends.
Cuts(s) == {0, Len(s) + 1} \cup { i \in 1..Len(s) : s[i] = "/" }

\* The k-th segment of s: what lies between the k-th cut and the next.
Segment(s, k) ==
    LET from == CHOOSE c \in Cuts(s) : Cardinality({ d \in Cuts(s) : d < c }) = k - 1
        to == CHOOSE c \in Cuts(s) : Cardinality({ d \in Cuts(s) : d < c }) = k
    IN  SubSeq(s, from + 1, to - 1)

\* Same number of segments, and each pattern segment is the actual one or is a
\* placeholder facing a segment that is not empty.
PathMatches(act, pat) ==
    LET a == Inner(act)
        p == Inner(pat)
    IN  /\ Cardinality(Cuts(a)) = Cardinality(Cuts(p))
        /\ \A k \in 1..(Cardinality(Cuts(a)) - 1) :
              \/ Segment(p, k) = Segment(a, k)
              \/ /\ Segment(p, k) # <<>>
                 /\ Segment(p, k)[1] = ":"
                 /\ Segment(a, k) # <<>>

(***************************************************************************)
(* C22.  matchPath(actual, pattern) is true exactly when, leading and      *)
(* trailing slashes trimmed and the rest split on '/', the two paths have  *)
(* the same number of segments and every pattern segment equals the        *)
(* actual one or starts with ':' while the actual one is not empty; so a   *)
(* placeholder also matches a static sibling path.                         *)
(***************************************************************************)
C22_MatchPath ==
    matched # "unset" => (matched = "true" <=> PathMatches(actual, pattern))

\* A placeholder refused an empty segment where the other segments agree.
C22_Witness ==
    /\ matched = "false"
    /\ actual = <<"a", "/", "/", "a">>
    /\ pattern = <<"a", "/", ":", "/", "a">>

\* The cookie has a '.', and the characters after its last '.' are the HMAC of
\* the characters before it.
HasDot(str) == \E i \in 1..Len(str) : str[i] = "."
LastDot(str) == CHOOSE i \in 1..Len(str) : str[i] = "." /\ \A j \in (i + 1)..Len(str) : str[j] # "."
WellSigned(str, k) ==
    /\ HasDot(str)
    /\ SubSeq(str, LastDot(str) + 1, Len(str)) = Mac(Key(k), SubSeq(str, 1, LastDot(str) - 1))

(***************************************************************************)
(* C23, as claimed.  For every value v, verifyCookieValue of               *)
(* signCookieValue(v) returns v and no error, and every cookie that is     *)
(* empty, has no '.', starts with '.', or whose part after the last '.' is *)
(* not the HMAC of the part before it, is rejected with an error.  The     *)
(* empty value does not come back: its signed form starts with its only    *)
(* '.', and a well signed value that starts with '.' is accepted.          *)
(***************************************************************************)
C23_RoundTripAndTamper ==
    /\ verified.stage = "round trip" => (verified.err = "" /\ verified.value = value)
    /\ (/\ verified.stage \in {"round trip", "checked"}
        /\ \/ signed = <<>>
           \/ ~HasDot(signed)
           \/ signed[1] = "."
           \/ ~WellSigned(signed, secret)) => verified.err # ""

(***************************************************************************)
(* C23, amended.  For every value v that is not empty, verifyCookieValue   *)
(* of signCookieValue(v) returns v and no error; a cookie is rejected with *)
(* an error exactly when it is empty, has no '.', has its last '.' as its  *)
(* first character, or the part after its last '.' is not the HMAC of the  *)
(* part before it; a cookie that is accepted yields the part before its    *)
(* last '.'.                                                               *)
(***************************************************************************)
C23_RoundTripNonEmpty ==
    /\ (verified.stage = "round trip" /\ value # <<>>) =>
          (verified.err = "" /\ verified.value = value)
    /\ verified.stage \in {"round trip", "checked"} =>
          /\ verified.err # "" <=>
                \/ signed = <<>>
                \/ ~HasDot(signed)
                \/ LastDot(signed) = 1
                \/ ~WellSigned(signed, secret)
          /\ verified.err = "" => verified.value = SubSeq(signed, 1, LastDot(signed) - 1)

\* A value that holds a '.' has come back from its signed form.
C23_Witness ==
    /\ verified.stage = "round trip"
    /\ verified.err = ""
    /\ verified.value = <<"a", ".", "a">>

(***************************************************************************)
(* C29.  A password-reset code is single-use: a call that starts after a   *)
(* call with the code has succeeded is rejected as already used, and of    *)
(* the calls that present the code at most one succeeds.  Two calls that   *)
(* both read the row before either marks it used both succeed.             *)
(***************************************************************************)
C29_SingleUse ==
    /\ Cardinality({c \in Calls : resetCalls[c].reply = "ok"}) <= 1
    /\ \A c \in Calls :
          (resetCalls[c].late /\ resetCalls[c].code = "sent" /\ resetCalls[c].pc = "done")
              => resetCalls[c].reply = "used"

\* The callbacks in which token t gave the user.
IdentifiedBy(t) == {k \in Callbacks : callbacks[k].by = "token" /\ callbacks[k].token = t}

(***************************************************************************)
(* C30.  A Feishu bind token is one-time and time-limited: only a token    *)
(* that GetFeishuBindToken handed out identifies a user, it identifies the *)
(* user it was handed to, in at most one FeishuCallback, however the       *)
(* callbacks that carry it interleave, and at an instant before its        *)
(* expiry.                                                                 *)
(***************************************************************************)
C30_OneTimeAndTimeLimited ==
    /\ \A k \in Callbacks : callbacks[k].by = "token" => callbacks[k].token \in 1..Len(issued)
    /\ \A t \in 1..Len(issued) :
          /\ Cardinality(IdentifiedBy(t)) <= 1
          /\ \A k \in IdentifiedBy(t) :
                /\ callbacks[k].currentUser = issued[t].UserID
                /\ callbacks[k].at < issued[t].ExpiresAt

\* Two callbacks carried the same token and were in flight together: the token
\* gave its user to one of them and nothing to the other.
C30_Witness ==
    /\ callbacks[1].token = callbacks[2].token
    /\ callbacks[1].by = "token"
    /\ callbacks[2].pc = "looked" /\ ~callbacks[2].ok

====
